---------------------------- MODULE Spec2Model ----------------------------
(***************************************************************************)
(* A model of the pooled RESP client (package redis): the reply decoder    *)
(* (readErrorMessage, readSimpleString, readBulkString), the command       *)
(* encoder (command), and the connection pool used by Client.Get and       *)
(* Client.Set (getConn, the deferred release, Close).                      *)
(* The array decoder of the scanner-based client (getArray,                *)
(* getBulkString) is modelled for the round trip of the encoder.           *)
(*                                                                         *)
(* A byte is a one-character string; a Go string or []byte is a sequence   *)
(* of bytes.                                                               *)
(***************************************************************************)
EXTENDS Integers, Sequences, FiniteSets, TLC

VARIABLES
    pool,      \* c.pool: the buffered channel of idle connections, oldest first
    conn,      \* every net.Conn created so far, by id (its index)
    pc,        \* per call: "idle", "acquired", "written", "release", "return", "done"
    op,        \* per call: "Get" or "Set"
    ctx,       \* per call: the context.Context the call was issued with
    hold,      \* per call: the connection the call owns (0: none)
    result,    \* per call: what Get / Set returns
    closeCalled, \* Client.Close has returned
    harness,   \* the peers: mode "server" (any server, any network), "steady" (a
               \* server that answers and stays), "barrier" (TestConcurrency)
    stream,    \* codec runs: the bytes a bufio.Reader can deliver before EOF
    decoded,   \* codec runs: what the decoder returned for stream
    args       \* encoder runs: the call whose command is encoded into stream

vars == <<pool, conn, pc, op, ctx, hold, result, closeCalled, harness, stream, decoded, args>>

poolVars == <<pool, conn, pc, op, ctx, hold, result, closeCalled, harness>>
codecVars == <<stream, decoded, args>>

----------------------------------------------------------------------------
(* Bounds of the model                                                     *)

NumCallers == 2
MaxSeed == 2
MaxRaw == 4
MaxBody == 4
BurstLag == 2
MaxPipes == 3
MaxKey == 2

(* Program constants                                                       *)

DefaultPoolSize == 10

CR == "\r"
LF == "\n"
crlf == <<CR, LF>>

----------------------------------------------------------------------------
(* Bytes, decimal numbers                                                  *)

Digits == <<"0", "1", "2", "3", "4", "5", "6", "7", "8", "9">>

IsDigit(b) == \E i \in 1..10 : Digits[i] = b

DigitVal(b) == (CHOOSE i \in 1..10 : Digits[i] = b) - 1

RECURSIVE DigitsVal(_)
DigitsVal(s) ==
    IF s = <<>> THEN 0
    ELSE 10 * DigitsVal(SubSeq(s, 1, Len(s) - 1)) + DigitVal(s[Len(s)])

AllDigits(s) == s # <<>> /\ \A i \in 1..Len(s) : IsDigit(s[i])

\* strconv.Atoi: an optional sign, then one or more decimal digits.
AtoiOk(s) ==
    IF s # <<>> /\ s[1] \in {"+", "-"} THEN AllDigits(Tail(s)) ELSE AllDigits(s)

Atoi(s) ==
    IF s[1] = "-" THEN 0 - DigitsVal(Tail(s))
    ELSE IF s[1] = "+" THEN DigitsVal(Tail(s))
    ELSE DigitsVal(s)

\* strconv.Itoa
RECURSIVE ItoaNat(_)
ItoaNat(n) ==
    IF n < 10 THEN <<Digits[n + 1]>>
    ELSE ItoaNat(n \div 10) \o <<Digits[(n % 10) + 1]>>

Itoa(n) == IF n < 0 THEN <<"-">> \o ItoaNat(0 - n) ELSE ItoaNat(n)

----------------------------------------------------------------------------
(* Errors.  kind is what the Go error value is:                            *)
(*   "nil"        no error                                                 *)
(*   "msg"        errors.New(text) built by readErrorMessage               *)
(*   "io"         the error of a failed Read/Write (EOF, closed, reset)    *)
(*   "timeout"    a deadline error of the connection                       *)
(*   "ctx"        ctx.Err()                                                *)
(*   "dial"       the error of DialContext                                 *)
(*   "atoi"       the *strconv.NumError of Atoi                            *)
(*   "expectedOK" fmt.Errorf("redis: expected OK from Redis but got: ...") *)
(*   "unexpected" fmt.Errorf("redis: unexpected message type ...")         *)
(*   "panic"      no value is returned: the goroutine panics               *)
(* A decoder returns, with the values the Go function returns, rest: the   *)
(* bytes it left in the reader, and short: the reader ran out of bytes, so *)
(* that a Read blocked and then failed; the error of that Read has kind    *)
(* "io" here, and the call that owns the connection knows whether it was   *)
(* the deadline ("timeout") or the transport ("io").                       *)

Err(kind, msg) == [kind |-> kind, msg |-> msg]
NoErr == Err("nil", <<>>)

\* Where the errors come from, other than the server's reply
DecodeKinds == {"io", "timeout", "ctx", "dial", "atoi", "expectedOK", "unexpected"}

\* The Go types an error value of each origin can have.  errors.New, and
\* fmt.Errorf without %w, return a *errors.errorString, as are io.EOF,
\* io.ErrUnexpectedEOF, io.ErrClosedPipe and context.Canceled; the net
\* package returns *net.OpError, a timeout included; an expired context
\* gives context.deadlineExceededError.  No statement constructs an Error.
GoTypes(e) ==
    CASE e.kind = "nil" -> {}
      [] e.kind = "msg" -> {"*errors.errorString"}
      [] e.kind \in {"expectedOK", "unexpected"} -> {"*errors.errorString"}
      [] e.kind = "io" -> {"*errors.errorString", "*net.OpError"}
      [] e.kind = "timeout" -> {"*net.OpError"}
      [] e.kind = "dial" -> {"*net.OpError"}
      [] e.kind = "ctx" -> {"*errors.errorString", "context.deadlineExceededError"}
      [] e.kind = "atoi" -> {"*strconv.NumError"}
      [] OTHER -> {}

Ret(value, exists, err, rest) ==
    [value |-> value, exists |-> exists, err |-> err, rest |-> rest, short |-> FALSE]

\* A Read that found no more bytes: the reader's error, nothing left.
ShortRead ==
    [value |-> <<>>, exists |-> FALSE, err |-> Err("io", <<>>), rest |-> <<>>,
     short |-> TRUE]

\* The index of the first LF of s, 0 if there is none.
IndexLF(s) ==
    IF \E i \in 1..Len(s) : s[i] = LF
    THEN CHOOSE i \in 1..Len(s) : s[i] = LF /\ \A j \in 1..(i - 1) : s[j] # LF
    ELSE 0

\* reader.ReadString('\n') on the bytes s still to come.
ReadString(s) ==
    LET i == IndexLF(s) IN
    IF i = 0 THEN [ok |-> FALSE, line |-> s, rest |-> <<>>]
    ELSE [ok |-> TRUE, line |-> SubSeq(s, 1, i), rest |-> SubSeq(s, i + 1, Len(s))]

\* A readErrorMessage that drops only the LF of the line
readErrorMessageKeepCR(s) ==
    LET r == ReadString(s) IN
    IF ~r.ok THEN ShortRead
    ELSE Ret(<<>>, FALSE, Err("msg", SubSeq(r.line, 1, Len(r.line) - 1)), r.rest)

readErrorMessage(s) ==
    LET r == ReadString(s) IN
    IF ~r.ok THEN ShortRead
    ELSE IF Len(r.line) < 2 THEN Ret(<<>>, FALSE, Err("panic", <<>>), r.rest)
    ELSE Ret(<<>>, FALSE, Err("msg", SubSeq(r.line, 1, Len(r.line) - 2)), r.rest)

readSimpleString(s) ==
    LET r == ReadString(s) IN
    IF ~r.ok THEN ShortRead
    ELSE IF Len(r.line) < 2 THEN Ret(<<>>, FALSE, Err("panic", <<>>), r.rest)
    ELSE Ret(SubSeq(r.line, 1, Len(r.line) - 2), FALSE, NoErr, r.rest)

\* A Discard that leaves the bytes in the reader
DiscardNothing(s, n) == [ok |-> TRUE, rest |-> s]

\* reader.Discard(n) on the bytes s still to come
Discard(s, n) ==
    IF Len(s) < n THEN [ok |-> FALSE, rest |-> <<>>]
    ELSE [ok |-> TRUE, rest |-> SubSeq(s, n + 1, Len(s))]

\* A read of the payload that stops at the first line end
ReadFullLine(s, n) ==
    LET r == ReadString(s) IN
    IF ~r.ok THEN [ok |-> FALSE, msg |-> <<>>, rest |-> <<>>]
    ELSE [ok |-> TRUE, msg |-> r.line \o crlf, rest |-> r.rest]

\* io.ReadFull(reader, msg) with len(msg) = n on the bytes s still to come
ReadFull(s, n) ==
    IF Len(s) < n THEN [ok |-> FALSE, msg |-> <<>>, rest |-> <<>>]
    ELSE [ok |-> TRUE, msg |-> SubSeq(s, 1, n), rest |-> SubSeq(s, n + 1, Len(s))]

readBulkString(s) ==
    LET r == ReadString(s) IN
    IF ~r.ok THEN ShortRead
    ELSE IF Len(r.line) < 2 THEN Ret(<<>>, FALSE, Err("panic", <<>>), r.rest)
    ELSE LET sizeS == SubSeq(r.line, 1, Len(r.line) - 2) IN
         IF ~AtoiOk(sizeS) THEN Ret(<<>>, FALSE, Err("atoi", sizeS), r.rest)
         ELSE LET size == Atoi(sizeS) IN
              IF size = 0 THEN
                  LET d == Discard(r.rest, 2) IN
                  IF ~d.ok THEN ShortRead ELSE Ret(<<>>, TRUE, NoErr, d.rest)
              ELSE IF size = 0 - 1 THEN Ret(<<>>, FALSE, NoErr, r.rest)
              ELSE IF size < 0 THEN Ret(<<>>, FALSE, Err("panic", <<>>), r.rest)
              ELSE LET f == ReadFull(r.rest, size + 2) IN
                   IF ~f.ok THEN ShortRead
                   ELSE Ret(SubSeq(f.msg, 1, Len(f.msg) - 2), TRUE, NoErr, f.rest)

\* Client.get from bufio.NewReader(conn) on: the type byte, then the switch.
getReply(s) ==
    IF s = <<>> THEN ShortRead
    ELSE IF Head(s) = "-" THEN readErrorMessage(Tail(s))
    ELSE IF Head(s) = "$" THEN readBulkString(Tail(s))
    ELSE Ret(<<>>, FALSE, Err("unexpected", <<Head(s)>>), Tail(s))

\* A Set that takes any simple string for success
expectAny(r) == [r EXCEPT !.value = <<>>]

\* Set's case '+' after readSimpleString has returned r = (ok, err):
\* if ok != "OK" the expected-OK error, else err.
expectOK(r) ==
    IF r.err.kind = "panic" THEN r
    ELSE IF r.value # <<"O", "K">>
         THEN [r EXCEPT !.err = Err("expectedOK", r.value), !.value = <<>>]
         ELSE [r EXCEPT !.value = <<>>]

\* Client.Set from bufio.NewReader(conn) on.  Set returns only the error.
SetReply(s) ==
    IF s = <<>> THEN ShortRead
    ELSE IF Head(s) = "-" THEN readErrorMessage(Tail(s))
    ELSE IF Head(s) = "+" THEN expectOK(readSimpleString(Tail(s)))
    ELSE IF Head(s) = "$" THEN
        LET r == readBulkString(Tail(s)) IN [r EXCEPT !.value = <<>>, !.exists = FALSE]
    ELSE Ret(<<>>, FALSE, Err("unexpected", <<Head(s)>>), Tail(s))

----------------------------------------------------------------------------
(* The command encoder                                                     *)

appendArrayToken(builder, count) == builder \o <<"*">> \o Itoa(count) \o crlf

appendBulkString(builder, s) ==
    builder \o <<"$">> \o Itoa(Len(s)) \o crlf \o s \o crlf

\* strings.Split(s, " "): the pieces of s between single spaces.
RECURSIVE Split(_)
Split(s) ==
    IF \E i \in 1..Len(s) : s[i] = " "
    THEN LET i == CHOOSE k \in 1..Len(s) :
                      s[k] = " " /\ \A j \in 1..(k - 1) : s[j] # " "
         IN <<SubSeq(s, 1, i - 1)>> \o Split(SubSeq(s, i + 1, Len(s)))
    ELSE <<s>>

RECURSIVE appendAll(_, _)
appendAll(builder, ss) ==
    IF ss = <<>> THEN builder
    ELSE appendAll(appendBulkString(builder, Head(ss)), Tail(ss))

command(s) ==
    LET ss == Split(s) IN appendAll(appendArrayToken(<<>>, Len(ss)), ss)

----------------------------------------------------------------------------
(* Contexts, connections, calls                                            *)

Callers == DOMAIN pc

\* The contexts a call is issued with: context.Background(), a context with
\* a deadline still to come, one whose deadline has passed, a cancelled one.
CtxKinds == {"background", "deadline", "expired", "cancelled"}

NewCtx(kind) == [kind |-> kind, expired |-> (kind = "expired")]

HasDeadline(cx) == cx.kind \in {"deadline", "expired"}

\* <-ctx.Done() is ready
CtxDone(cx) == cx.kind = "cancelled" \/ cx.expired

\* A net.Conn.  closed: the client called Close on it.  broken: the peer
\* closed or reset it, and an operation on the connection has met that (the
\* peer goes at any time; the model lets it go when an operation would
\* notice).  deadline: 0 for none (the zero time), else the call
\* whose context deadline SetDeadline was given.  inbuf: bytes the peer
\* sent that no Read has taken.  pending: commands written and not yet
\* answered.  writes: commands written.
NewConn ==
    [closed |-> FALSE, broken |-> FALSE, deadline |-> 0, inbuf |-> <<>>,
     pending |-> 0, writes |-> 0]

\* Peers may go away, except a steady server and the pipes of TestConcurrency.
PeerMayGo == harness.mode = "server"

\* A dial may fail, except to a steady server; in TestConcurrency (address
\* "-1") it cannot succeed.
DialCanFail == harness.mode \in {"server", "barrier"}
DialCanSucceed == harness.mode \in {"server", "steady"}

Conns == 1..Len(conn)

InFlight == {"acquired", "written", "release"}

Holds(p, c) == pc[p] \in InFlight /\ hold[p] = c

\* The deadline set on connection c has passed.
DeadlineExpired(c) == conn[c].deadline # 0 /\ ctx[conn[c].deadline].expired

NoResult == [value |-> <<>>, exists |-> FALSE, err |-> NoErr]

ErrResult(e) == [value |-> <<>>, exists |-> FALSE, err |-> e]

\* The errors after which the position of the stream in its frame is unknown.
TransportKinds == {"io", "timeout", "atoi", "panic"}

RECURSIVE Suffixes(_)
Suffixes(s) == IF s = <<>> THEN {<<>>} ELSE {s} \cup Suffixes(Tail(s))

----------------------------------------------------------------------------
(* New: the client, with an empty pool of capacity DefaultPoolSize, and n  *)
(* calls to come                                                           *)

New(n) ==
    /\ pc = [p \in 1..n |-> "idle"]
    /\ op = [p \in 1..n |-> "Get"]
    /\ ctx = [p \in 1..n |-> NewCtx("background")]
    /\ hold = [p \in 1..n |-> 0]
    /\ result = [p \in 1..n |-> NoResult]
    /\ closeCalled = FALSE

\* k idle connections in the pool: none after New; a test puts its pipes in
\* with client.pool <- conn, and calls that have returned leave theirs.
Idle(k) ==
    /\ pool = [i \in 1..k |-> i]
    /\ conn = [i \in 1..k |-> NewConn]

\* Nothing decoded yet
NotDecoded == [fn |-> "none", ret |-> Ret(<<>>, FALSE, NoErr, <<>>)]

\* No call to encode
NoArgs == [fn |-> "none", key |-> <<>>, value |-> <<>>]

CodecIdle == stream = <<>> /\ decoded = NotDecoded /\ args = NoArgs

Init ==
    /\ New(NumCallers)
    /\ \E k \in 0..MaxSeed : Idle(k)
    /\ harness = [mode |-> "server", step |-> 0]
    /\ CodecIdle

----------------------------------------------------------------------------
(* getConn.  Each outcome is a record: what the select and the code after  *)
(* it leave in the pool, in the connections, and what they return:         *)
(* got # 0, the connection returned; got = 0, the error returned.          *)

\* A dial whose failure leaves a half-made connection in the idle store
DialLeak(cx, pl, cs) ==
    (IF CtxDone(cx) \/ DialCanFail
     THEN {[pool |-> Append(pl, Len(cs) + 1), conn |-> Append(cs, NewConn),
            got |-> 0,
            err |-> IF CtxDone(cx) THEN Err("ctx", <<>>) ELSE Err("dial", <<>>)]}
     ELSE {})
    \cup (IF CtxDone(cx) \/ ~DialCanSucceed THEN {}
          ELSE {[pool |-> pl, conn |-> Append(cs, NewConn), got |-> Len(cs) + 1,
                 err |-> NoErr]})

\* c.dialer.DialContext(ctx, "tcp", c.address) with connections cs: a new
\* connection, or an error (ctx.Err() when ctx is done).
Dial(cx, pl, cs) ==
    (IF CtxDone(cx) \/ DialCanFail
     THEN {[pool |-> pl, conn |-> cs, got |-> 0,
            err |-> IF CtxDone(cx) THEN Err("ctx", <<>>) ELSE Err("dial", <<>>)]}
     ELSE {})
    \cup (IF CtxDone(cx) \/ ~DialCanSucceed THEN {}
          ELSE {[pool |-> pl, conn |-> Append(cs, NewConn), got |-> Len(cs) + 1,
                 err |-> NoErr]})

\* conn.SetDeadline(deadline) fails on a connection that is closed, and on
\* some transports (net.Pipe) on one whose peer is gone.
SetDeadlineCanFail(c) == conn[c].closed \/ PeerMayGo
SetDeadlineCanSucceed(c) == ~conn[c].closed

\* case <-ctx.Done(): return nil, ctx.Err()
CaseDone(cx) ==
    IF CtxDone(cx)
    THEN {[pool |-> pool, conn |-> conn, got |-> 0, err |-> Err("ctx", <<>>)]}
    ELSE {}

\* A receive that leaves the connection in the channel
ReceivePeek(pl) == pl

\* conn := <-c.pool: the channel after the receive
Receive(pl) == Tail(pl)

\* case conn := <-c.pool: SetDeadline, and on its failure Close and the dial
CaseReceive(p, cx) ==
    IF pool # <<>>
    THEN LET c == Head(pool) IN
         (IF SetDeadlineCanSucceed(c)
          THEN {[pool |-> Receive(pool),
                 conn |-> [conn EXCEPT ![c].deadline =
                                           IF HasDeadline(cx) THEN p ELSE 0],
                 got |-> c, err |-> NoErr]}
          ELSE {})
         \cup
         (IF SetDeadlineCanFail(c)
          THEN Dial(cx, Receive(pool),
                    [conn EXCEPT ![c].closed = TRUE, ![c].broken = TRUE])
          ELSE {})
    ELSE {}

\* A select without default: it waits for a case to be ready
CaseDefaultNone(cx) == {}

\* A default that the select may take while the pool holds a connection
CaseDefaultAny(cx) == IF ~CtxDone(cx) THEN Dial(cx, pool, conn) ELSE {}

\* default: fall out of the select to the dial
CaseDefault(cx) ==
    IF pool = <<>> /\ ~CtxDone(cx) THEN Dial(cx, pool, conn) ELSE {}

\* The select takes any case that is ready, default when none is.
getConn(p, cx) == CaseDone(cx) \cup CaseReceive(p, cx) \cup CaseDefault(cx)

\* A call is issued: Client.Get or Client.Set up to the return of getConn.
\* Calls are numbered in the order they are issued.
Acquire(p, o, kind) ==
    /\ pc[p] = "idle"
    /\ \A q \in Callers : q < p => pc[q] # "idle"
    /\ \E out \in getConn(p, NewCtx(kind)) :
        /\ pool' = out.pool
        /\ conn' = out.conn
        /\ op' = [op EXCEPT ![p] = o]
        /\ ctx' = [ctx EXCEPT ![p] = NewCtx(kind)]
        /\ hold' = [hold EXCEPT ![p] = out.got]
        /\ pc' = [pc EXCEPT ![p] = IF out.got = 0 THEN "return" ELSE "acquired"]
        /\ result' = [result EXCEPT ![p] = ErrResult(out.err)]
    /\ UNCHANGED <<closeCalled, harness, stream, decoded, args>>

----------------------------------------------------------------------------
(* conn.Write(command(...))                                                *)

\* The outcomes of the Write on connection c: the error returned.  A Write
\* past the deadline fails at once; one to a peer that is gone fails.
WriteOutcomes(c) ==
    IF DeadlineExpired(c) THEN {Err("timeout", <<>>)}
    ELSE IF conn[c].closed \/ conn[c].broken THEN {Err("io", <<>>)}
    ELSE IF PeerMayGo THEN {NoErr, Err("io", <<>>)}
    ELSE {NoErr}

Write(p) ==
    /\ pc[p] = "acquired"
    /\ harness.mode = "barrier" => hold[p] = harness.step + 1
    /\ \E e \in WriteOutcomes(hold[p]) :
        IF e = NoErr
        THEN /\ conn' = [conn EXCEPT ![hold[p]].pending = @ + 1,
                                     ![hold[p]].writes = @ + 1]
             /\ pc' = [pc EXCEPT ![p] = "written"]
             /\ result' = result
        ELSE /\ conn' = [conn EXCEPT ![hold[p]].broken = @ \/ e.kind = "io"]
             /\ pc' = [pc EXCEPT ![p] = "release"]
             /\ result' = [result EXCEPT ![p] = ErrResult(e)]
    /\ harness' = IF harness.mode = "barrier"
                  THEN [harness EXCEPT !.step = @ + 1] ELSE harness
    /\ UNCHANGED <<pool, op, ctx, hold, closeCalled, stream, decoded, args>>

----------------------------------------------------------------------------
(* The reply: bufio.NewReader(conn), ReadByte, the switch on the type byte *)

Reply(o, s) == IF o = "Get" THEN getReply(s) ELSE SetReply(s)

\* The error a failed Read of connection c returns.
ReadErr(c) == IF DeadlineExpired(c) THEN Err("timeout", <<>>) ELSE Err("io", <<>>)

Returned(c, r) ==
    [value |-> r.value, exists |-> r.exists,
     err |-> IF r.err.kind = "io" THEN ReadErr(c) ELSE r.err]

\* The outcomes of the read of a reply by a call o on connection c: what
\* the call returns and what is left in the connection.  With the deadline
\* passed a Read fails at once; the bytes that came before it passed were
\* taken.  Without it a Read waits for bytes until the peer is gone.  The
\* bufio.Reader may have taken more than the frame, and is dropped.
ReadOutcomes(o, c) ==
    LET r == Reply(o, conn[c].inbuf) IN
    (IF DeadlineExpired(c)
     THEN {[ret |-> Returned(c, Reply(o, <<>>)), inbuf |-> conn[c].inbuf,
            broken |-> conn[c].broken]}
     ELSE {})
    \cup
    (IF r.short /\ (DeadlineExpired(c) \/ conn[c].broken \/ PeerMayGo)
     THEN {[ret |-> Returned(c, r), inbuf |-> <<>>,
            broken |-> conn[c].broken \/ ~DeadlineExpired(c)]}
     ELSE {})
    \cup
    (IF ~r.short /\ ~DeadlineExpired(c)
     THEN {[ret |-> Returned(c, r), inbuf |-> rest, broken |-> conn[c].broken] :
              rest \in Suffixes(r.rest)}
     ELSE {})

ReadReplyOf(p, outs) ==
    /\ pc[p] = "written"
    /\ \E out \in outs :
        /\ conn' = [conn EXCEPT ![hold[p]].inbuf = out.inbuf,
                                ![hold[p]].broken = out.broken]
        /\ result' = [result EXCEPT ![p] = out.ret]
    /\ pc' = [pc EXCEPT ![p] = "release"]
    /\ harness' = IF harness.mode = "barrier"
                  THEN [harness EXCEPT !.step = @ + 1] ELSE harness
    /\ UNCHANGED <<pool, op, ctx, hold, closeCalled, stream, decoded, args>>

ReadReply(p) == ReadReplyOf(p, ReadOutcomes(op[p], hold[p]))

\* The read as far as it can go with nothing more from the peer: no byte
\* and no end of stream that is not there yet.
ReadReplyAlone(p) ==
    ReadReplyOf(p, {out \in ReadOutcomes(op[p], hold[p]) :
                       out.broken = conn[hold[p]].broken})

----------------------------------------------------------------------------
(* The deferred func() { c.pool <- conn }()                                *)

\* A release that drops the connection
PutDrop(pl, c) == {pl}

\* A send on a channel without capacity limit
PutUnbounded(pl, c) == {Append(pl, c)}

\* A release that sends the connection twice
PutTwice(pl, c) == {Append(Append(pl, c), c)}

\* The send c.pool <- c: the pool after it.  The send blocks (no outcome)
\* while the channel holds DefaultPoolSize connections.
Put(pl, c) == IF Len(pl) < DefaultPoolSize THEN {Append(pl, c)} ELSE {}

Release(p) ==
    /\ pc[p] = "release"
    /\ \E pl \in Put(pool, hold[p]) : pool' = pl
    /\ pc' = [pc EXCEPT ![p] = "return"]
    /\ UNCHANGED <<conn, op, ctx, hold, result, closeCalled, harness, stream, decoded, args>>

\* The call returns result[p] to its caller, and its frame is gone.
Return(p) ==
    /\ pc[p] = "return"
    /\ pc' = [pc EXCEPT ![p] = "done"]
    /\ op' = [op EXCEPT ![p] = "Get"]
    /\ ctx' = [ctx EXCEPT ![p] = NewCtx("background")]
    /\ hold' = [hold EXCEPT ![p] = 0]
    /\ result' = [result EXCEPT ![p] = NoResult]
    /\ UNCHANGED <<pool, conn, closeCalled, harness, stream, decoded, args>>

----------------------------------------------------------------------------
(* Client.Close                                                            *)

\* What Close leaves in the pool and in the connections.
CloseEffect == [pool |-> pool, conn |-> conn]

Close ==
    /\ ~closeCalled
    /\ pool' = CloseEffect.pool
    /\ conn' = CloseEffect.conn
    /\ closeCalled' = TRUE
    /\ UNCHANGED <<pc, op, ctx, hold, result, harness, stream, decoded, args>>

----------------------------------------------------------------------------
(* The environment: the server, the network, the clock                     *)

Bulk(s) == appendBulkString(<<>>, s)

\* Frames a server sends in answer to a command; the last is cut short.
ReplyFrames ==
    { Bulk(<<"a">>),
      <<"-", "E", " ", "x", CR, LF>>,
      <<":", "1", CR, LF>>,
      <<"$", "1", CR, LF>> }

ServerReply(c, f) ==
    /\ harness.mode \in {"server", "steady"}
    /\ conn[c].pending > 0
    /\ ~conn[c].broken
    /\ conn' = [conn EXCEPT ![c].inbuf = @ \o f, ![c].pending = @ - 1]
    /\ UNCHANGED <<pool, pc, op, ctx, hold, result, closeCalled, harness, stream, decoded, args>>

\* The deadline of the context of call p passes while the call runs.
Expire(p) ==
    /\ pc[p] \in InFlight
    /\ HasDeadline(ctx[p])
    /\ ~ctx[p].expired
    /\ ctx' = [ctx EXCEPT ![p].expired = TRUE]
    /\ UNCHANGED <<pool, conn, pc, op, hold, result, closeCalled, harness, stream, decoded, args>>

Next ==
    \/ \E p \in Callers, o \in {"Get", "Set"}, k \in CtxKinds : Acquire(p, o, k)
    \/ \E p \in Callers : Write(p)
    \/ \E p \in Callers : ReadReply(p)
    \/ \E p \in Callers : Release(p)
    \/ \E p \in Callers : Return(p)
    \/ \E c \in Conns, f \in ReplyFrames : ServerReply(c, f)
    \/ \E p \in Callers : Expire(p)

Spec == Init /\ [][Next]_vars

\* The client with Close among its operations
NextClose == Next \/ Close

SpecClose == Init /\ [][NextClose]_vars

----------------------------------------------------------------------------
(* A burst: one more concurrent call than the pool has room for, every     *)
(* call a Get with context.Background().  To keep the run small the calls  *)
(* are taken in turn: no call gets ahead of a call issued before it, nor   *)
(* more than BurstLag steps ahead of the last one.                         *)

BurstCallers == DefaultPoolSize + 1

Stage(p) ==
    CASE pc[p] = "idle" -> 0
      [] pc[p] = "acquired" -> 1
      [] pc[p] = "written" -> IF conn[hold[p]].inbuf = <<>> THEN 2 ELSE 3
      [] pc[p] = "release" -> 4
      [] pc[p] = "return" -> 5
      [] OTHER -> 6

InTurn(p) ==
    /\ \A q \in Callers : q < p => (Stage(q) > Stage(p) \/ Stage(q) = 6)
    /\ \A q \in Callers : Stage(p) + 1 - Stage(q) <= BurstLag

InitBurst ==
    /\ New(BurstCallers)
    /\ Idle(0)
    /\ harness = [mode |-> "steady", step |-> 0]
    /\ CodecIdle

NextBurst ==
    \/ \E p \in Callers : InTurn(p) /\ Acquire(p, "Get", "background")
    \/ \E p \in Callers : InTurn(p) /\ Write(p)
    \/ \E p \in Callers :
          InTurn(p) /\ pc[p] = "written" /\ ServerReply(hold[p], Bulk(<<"a">>))
    \/ \E p \in Callers : InTurn(p) /\ ReadReply(p)
    \/ \E p \in Callers : InTurn(p) /\ Release(p)
    \/ \E p \in Callers : InTurn(p) /\ Return(p)

SpecBurst == InitBurst /\ [][NextBurst]_vars

----------------------------------------------------------------------------
(* TestConcurrency: k pipes put into the pool of a new client, k           *)
(* concurrent Gets with context.Background(), and a peer that reads one    *)
(* command from each pipe in turn and only then writes the replies, in     *)
(* turn.  A pipe hands bytes over when both ends are there: a Write ends   *)
(* when the other end has read.  harness.step counts the peer's progress.  *)

InitPipes ==
    /\ \E k \in 1..MaxPipes : New(k) /\ Idle(k)
    /\ harness = [mode |-> "barrier", step |-> 0]
    /\ CodecIdle

\* serv_c.Write(asBulkString(...)), once every command has been read and the
\* replies before it have been taken
PipeReply(c) ==
    /\ harness.mode = "barrier"
    /\ c <= Len(pc)
    /\ harness.step = Len(pc) + 2 * (c - 1)
    /\ conn' = [conn EXCEPT ![c].inbuf = @ \o Bulk(<<"a">>), ![c].pending = @ - 1]
    /\ harness' = [harness EXCEPT !.step = @ + 1]
    /\ UNCHANGED <<pool, pc, op, ctx, hold, result, closeCalled, stream, decoded, args>>

NextPipes ==
    \/ \E p \in Callers : Acquire(p, "Get", "background")
    \/ \E p \in Callers : Write(p)
    \/ \E c \in Conns : PipeReply(c)
    \/ \E p \in Callers : ReadReply(p)
    \/ \E p \in Callers : Release(p)
    \/ \E p \in Callers : Return(p)

SpecPipes == InitPipes /\ [][NextPipes]_vars

----------------------------------------------------------------------------
(* The decoders alone: a reader over a stream that ends (EOF) after the    *)
(* bytes of stream, and Get's or Set's reading of the reply applied to it. *)

RECURSIVE SeqsUpTo(_, _)
SeqsUpTo(S, n) ==
    IF n = 0 THEN {<<>>}
    ELSE LET shorter == SeqsUpTo(S, n - 1) IN
         shorter \cup {Append(t, b) : t \in shorter, b \in S}

RawBytes == {"$", "-", "+", "0", "1", "a", CR, LF}

TypeBytes == {"$", "-", "+", ":", "*"}

HeaderTexts ==
    { <<>>, <<"0">>, <<"1">>, <<"2">>, <<"-", "1">>, <<"-", "2">>, <<"a">>,
      <<"O", "K">> }

BodyBytes == {"a", CR, LF}

\* Any short byte string, and any reply-like string: a type byte, a header
\* text, a line end, and up to MaxBody bytes after it.
Streams ==
    SeqsUpTo(RawBytes, MaxRaw)
    \cup { <<t>> \o h \o e \o b :
             t \in TypeBytes, h \in HeaderTexts, e \in {crlf, <<LF>>},
             b \in SeqsUpTo(BodyBytes, MaxBody) }

InitCodec ==
    /\ New(0)
    /\ Idle(0)
    /\ harness = [mode |-> "steady", step |-> 0]
    /\ stream \in Streams
    /\ decoded = NotDecoded
    /\ args = NoArgs

Decode(f) ==
    /\ decoded.fn = "none"
    /\ decoded' = [fn |-> f, ret |-> Reply(f, stream)]
    /\ UNCHANGED <<pool, conn, pc, op, ctx, hold, result, closeCalled, harness, stream, args>>

NextCodec == \E f \in {"Get", "Set"} : Decode(f)

SpecCodec == InitCodec /\ [][NextCodec]_vars

----------------------------------------------------------------------------
(* The scanner-based decoders of src/redis.go: bufio.NewScanner(conn) with *)
(* the default split function, bufio.ScanLines.                            *)

\* bufio's dropCR: a line without its one trailing CR
dropCR(t) ==
    IF t # <<>> /\ t[Len(t)] = CR THEN SubSeq(t, 1, Len(t) - 1) ELSE t

\* scanner.Scan() and scanner.Text() on the bytes s still to come, with EOF
\* after them: the next line without its line end; a last line without LF
\* is a line; after a Scan that found nothing Text() is "".
Scan(s) ==
    LET i == IndexLF(s) IN
    IF s = <<>> THEN [ok |-> FALSE, text |-> <<>>, rest |-> <<>>]
    ELSE IF i = 0 THEN [ok |-> TRUE, text |-> dropCR(s), rest |-> <<>>]
    ELSE [ok |-> TRUE, text |-> dropCR(SubSeq(s, 1, i - 1)),
          rest |-> SubSeq(s, i + 1, Len(s))]

\* getBulkString(s, scanner) with token the line read and s the bytes still
\* to come.  isNil: the *string returned is nil.
getBulkString(token, s) ==
    IF ~AtoiOk(Tail(token))
    THEN [isNil |-> TRUE, str |-> <<>>, err |-> Err("atoi", Tail(token)), rest |-> s]
    ELSE LET i == Atoi(Tail(token)) IN
         IF i = 0 - 1 THEN [isNil |-> TRUE, str |-> <<>>, err |-> NoErr, rest |-> s]
         ELSE IF i = 0 THEN [isNil |-> FALSE, str |-> <<>>, err |-> NoErr, rest |-> s]
         ELSE LET sc == Scan(s) IN
              [isNil |-> FALSE, str |-> sc.text, err |-> NoErr, rest |-> sc.rest]

\* The elements of an array: a string (of a simple or a bulk string) or an
\* int.
StringItem(t) == [type |-> "string", str |-> t, int |-> 0]
IntItem(n) == [type |-> "int", str |-> <<>>, int |-> n]

\* The loop of getArray with items elements still to read, arr read so far.
\* token[0] on an empty line, and *bulk on a nil bulk, panic; an unknown
\* type byte ends the process in log.Fatalln.
RECURSIVE arrayItems(_, _, _)
arrayItems(items, s, arr) ==
    IF items <= 0 THEN [arr |-> arr, err |-> NoErr, rest |-> s]
    ELSE LET sc == Scan(s)
             token == sc.text
         IN IF token = <<>> THEN [arr |-> arr, err |-> Err("panic", <<>>), rest |-> sc.rest]
            ELSE IF token[1] = "+"
                 THEN arrayItems(items - 1, sc.rest, Append(arr, StringItem(Tail(token))))
            ELSE IF token[1] = ":"
                 THEN arrayItems(items - 1, sc.rest,
                                 Append(arr, IntItem(IF AtoiOk(token) THEN Atoi(token) ELSE 0)))
            ELSE IF token[1] = "$"
                 THEN LET b == getBulkString(token, sc.rest) IN
                      IF b.isNil THEN [arr |-> arr, err |-> Err("panic", <<>>), rest |-> b.rest]
                      ELSE arrayItems(items - 1, b.rest, Append(arr, StringItem(b.str)))
            ELSE [arr |-> arr, err |-> Err("fatal", token), rest |-> sc.rest]

\* getArray(token, scanner) with token the line read and s the bytes still
\* to come.
getArray(token, s) ==
    IF ~AtoiOk(Tail(token))
    THEN [arr |-> <<>>, err |-> Err("atoi", Tail(token)), rest |-> s]
    ELSE arrayItems(Atoi(Tail(token)), s, <<>>)

\* A reply read as an array: the first line scanned, then getArray.
ArrayReply(s) ==
    LET sc == Scan(s) IN
    IF sc.text = <<>> THEN [arr |-> <<>>, err |-> Err("panic", <<>>), rest |-> sc.rest]
    ELSE getArray(sc.text, sc.rest)

----------------------------------------------------------------------------
(* The encoder alone: the command of a Get or a Set encoded as conn.Write  *)
(* is given it, and the frame read back as an array.                       *)

KeyBytes == {"a", " ", CR, LF}

Keys == SeqsUpTo(KeyBytes, MaxKey)

\* "GET " + key and fmt.Sprintf("SET %s %s", key, value)
Request(a) ==
    IF a.fn = "Get" THEN <<"G", "E", "T", " ">> \o a.key
    ELSE <<"S", "E", "T", " ">> \o a.key \o <<" ">> \o a.value

InitEncode ==
    /\ New(0)
    /\ Idle(0)
    /\ harness = [mode |-> "steady", step |-> 0]
    /\ stream = <<>>
    /\ decoded = NotDecoded
    /\ \/ \E k \in Keys : args = [fn |-> "Get", key |-> k, value |-> <<>>]
       \/ \E k \in Keys, v \in Keys : args = [fn |-> "Set", key |-> k, value |-> v]

Encode ==
    /\ stream = <<>>
    /\ stream' = command(Request(args))
    /\ UNCHANGED <<pool, conn, pc, op, ctx, hold, result, closeCalled, harness, decoded, args>>

DecodeArray ==
    /\ stream # <<>>
    /\ decoded.fn = "none"
    /\ decoded' = [fn |-> "getArray", ret |-> ArrayReply(stream)]
    /\ UNCHANGED <<pool, conn, pc, op, ctx, hold, result, closeCalled, harness, stream, args>>

NextEncode == Encode \/ DecodeArray

SpecEncode == InitEncode /\ [][NextEncode]_vars

----------------------------------------------------------------------------
(* Properties                                                              *)

InPool(c) == \E i \in 1..Len(pool) : pool[i] = c

\* C1: discard on failure.  A call that ends with a transport I/O error, a
\* timeout or a decode error while it holds a connection leaves that
\* connection closed and out of the idle store.
C1_DiscardOnFailure ==
    \A p \in Callers :
        (pc[p] = "return" /\ hold[p] # 0 /\ result[p].err.kind \in TransportKinds)
            => (conn[hold[p]].closed /\ ~InPool(hold[p]))

\* C2: release never blocks.  A call that has reached its deferred release
\* can always complete it, however many connections the idle store holds.
C2_ReleaseNeverBlocks ==
    \A p \in Callers : pc[p] = "release" => ENABLED Release(p)

\* C3: Close shuts the pool down.  Once Close has returned the idle store is
\* empty, every connection no call owns is closed, and a call issued from
\* then on fails without taking or dialing a connection.
C3_CloseShutsDown ==
    [][closeCalled' =>
         /\ pool' = <<>>
         /\ \A c \in 1..Len(conn') :
                (\A p \in Callers : ~(pc'[p] \in InFlight /\ hold'[p] = c))
                    => conn'[c].closed
         /\ \A p \in Callers :
                (pc[p] = "idle" /\ pc'[p] # "idle")
                    => (pc'[p] = "return" /\ hold'[p] = 0 /\ conn' = conn
                        /\ result'[p].err.kind # "nil")]_vars

\* C4: exclusive ownership.  No two calls in flight own the same connection,
\* and no connection a call owns is in the idle store.
C4_ExclusiveOwnership ==
    /\ \A p, q \in Callers :
           (p # q /\ pc[p] \in InFlight /\ pc[q] \in InFlight) => hold[p] # hold[q]
    /\ \A p \in Callers : pc[p] \in InFlight => ~InPool(hold[p])

\* Two calls in flight at once that found two idle connections in the
\* pool and dialed none.
C4_Witness ==
    \E p, q \in Callers :
        /\ p # q
        /\ pc[p] \in InFlight
        /\ pc[q] \in InFlight
        /\ Len(conn) = 2
        /\ pool = <<>>

\* C5: k idle connections, k concurrent Gets, replies withheld until every
\* command is written.  The calls own distinct connections of the k, none
\* dials, every transport gets exactly one command, and when all calls have
\* returned the idle store holds k connections again.
C5_SeededPool ==
    /\ Len(conn) = Len(pc)
    /\ \A p \in Callers : result[p].err.kind # "dial"
    /\ \A p, q \in Callers :
           (p # q /\ pc[p] \in InFlight /\ pc[q] \in InFlight) => hold[p] # hold[q]
    /\ harness.step >= Len(pc) => \A c \in Conns : conn[c].writes = 1
    /\ (\A p \in Callers : pc[p] = "done")
           => (Len(pool) = Len(pc) /\ \A c \in Conns : InPool(c))

\* Two calls, both returned, both connections idle again.
C5_Witness ==
    /\ Len(pc) = 2
    /\ \A p \in Callers : pc[p] = "done"
    /\ \A c \in Conns : conn[c].writes = 1 /\ conn[c].inbuf = <<>>
    /\ Len(pool) = 2

\* C6: Acquire on an empty idle store never waits for a Release.  With the
\* idle store empty the next call can be issued whatever the other calls
\* own, and one issued with a live context goes straight to the dial: it
\* gets the connection dialed for it, or the error of the dial.
C6_AcquireNeverWaits ==
    /\ [](\A p \in Callers :
            (pool = <<>> /\ pc[p] = "idle" /\ \A q \in Callers : q < p => pc[q] # "idle")
                => \A k \in CtxKinds : ENABLED Acquire(p, "Get", k))
    /\ [][\A p \in Callers :
            (pool = <<>> /\ pc[p] = "idle" /\ pc'[p] # "idle" /\ ~CtxDone(ctx'[p]))
                => \/ /\ pc'[p] = "acquired"
                      /\ conn' = Append(conn, NewConn)
                      /\ hold'[p] = Len(conn')
                   \/ /\ pc'[p] = "return"
                      /\ conn' = conn
                      /\ result'[p].err.kind = "dial"]_vars

\* A call has dialed (its context has a deadline, its connection has none)
\* while another call is in flight; no connection was closed.
C6_Witness ==
    \E p, q \in Callers :
        /\ p # q
        /\ pc[q] \in InFlight
        /\ pc[p] = "acquired"
        /\ ctx[p].kind = "deadline"
        /\ conn[hold[p]].deadline = 0
        /\ pool = <<>>
        /\ \A c \in Conns : ~conn[c].closed

\* C7: a call issued with a context that is already expired or cancelled
\* performs no write and fails with a timeout or cancellation error.
C7_DoneContextNoWrite ==
    \A p \in Callers :
        ctx[p].kind \in {"expired", "cancelled"}
            => /\ pc[p] # "written"
               /\ pc[p] \in {"release", "return"}
                      => result[p].err.kind \in {"ctx", "timeout"}

\* C8: a call made with a finite deadline returns even if the peer stays
\* silent.  Once its deadline has passed, a call in flight can take its next
\* step with nothing more from the peer.
C8_DeadlineCallReturns ==
    \A p \in Callers :
        (pc[p] \in InFlight /\ HasDeadline(ctx[p]) /\ ctx[p].expired)
            => ENABLED (Write(p) \/ ReadReplyAlone(p) \/ Release(p))

\* The reader holds a well-formed error reply: "-", a text without CR or LF,
\* CRLF.
IsErrorLine(s) ==
    /\ Len(s) >= 3
    /\ s[1] = "-"
    /\ \E i \in 3..Len(s) :
          /\ s[i] = LF
          /\ s[i - 1] = CR
          /\ \A j \in 2..(i - 2) : s[j] \notin {CR, LF}

ErrorText(s) ==
    LET i == CHOOSE k \in 3..Len(s) : s[k] = LF /\ \A j \in 1..(k - 1) : s[j] # LF
    IN SubSeq(s, 2, i - 2)

\* C9: server error reply.  A Get or Set that reads a well-formed error
\* reply with text m returns ("", false, error m), and its release puts the
\* connection, open, at the end of the idle store.
C9_ServerError ==
    [][\A p \in Callers :
         /\ (/\ pc[p] = "written"
             /\ pc'[p] = "release"
             /\ ~DeadlineExpired(hold[p])
             /\ IsErrorLine(conn[hold[p]].inbuf))
                => result'[p] = ErrResult(Err("msg", ErrorText(conn[hold[p]].inbuf)))
         /\ (pc[p] = "release" /\ pc'[p] = "return" /\ result[p].err.kind = "msg")
                => /\ pool' = Append(pool, hold[p])
                   /\ ~conn'[hold[p]].closed
                   /\ result'[p] = result[p]]_vars

\* A Get and a Set have both returned the server's error and both
\* connections are idle.
C9_Witness ==
    \E p, q \in Callers :
        /\ op[p] = "Get" /\ op[q] = "Set"
        /\ pc[p] = "return" /\ pc[q] = "return"
        /\ result[p] = ErrResult(Err("msg", <<"E", " ", "x">>))
        /\ result[q] = ErrResult(Err("msg", <<"E", " ", "x">>))
        /\ InPool(hold[p]) /\ InPool(hold[q])

StartsWith(s, prefix) ==
    Len(s) >= Len(prefix) /\ SubSeq(s, 1, Len(prefix)) = prefix

NullBulk == <<"$", "-", "1", CR, LF>>
EmptyBulk == <<"$", "0", CR, LF, CR, LF>>

\* C10: null versus empty.  Get returns ("", false, nil) for the null bulk
\* string and ("", true, nil) for the bulk string of length 0, and leaves in
\* the reader exactly the bytes after that frame.
C10_NullVersusEmpty ==
    decoded.fn = "Get" =>
        /\ StartsWith(stream, NullBulk)
               => decoded.ret = Ret(<<>>, FALSE, NoErr,
                                    SubSeq(stream, Len(NullBulk) + 1, Len(stream)))
        /\ StartsWith(stream, EmptyBulk)
               => decoded.ret = Ret(<<>>, TRUE, NoErr,
                                    SubSeq(stream, Len(EmptyBulk) + 1, Len(stream)))

\* Get has decoded an empty bulk string that bytes follow.
C10_Witness ==
    /\ decoded.fn = "Get"
    /\ stream = EmptyBulk \o <<"a", LF>>
    /\ decoded.ret.exists
    /\ decoded.ret.rest = <<"a", LF>>

\* The payloads of the bulk strings checked: every byte string of 1 to
\* MaxBody - 2 bytes, which leaves room for the CRLF after it.
Payloads == SeqsUpTo(BodyBytes, MaxBody - 2) \ {<<>>}

\* C11: a bulk payload is read by its declared length.  When the reply is
\* the bulk string of a payload of n > 0 bytes, Get returns those n bytes
\* with exists = TRUE and no error, whatever the bytes are (LF and CRLF
\* included), and leaves in the reader the bytes after the frame.
C11_PayloadByLength ==
    decoded.fn = "Get" =>
        \A payload \in Payloads :
            StartsWith(stream, Bulk(payload))
                => decoded.ret = Ret(payload, TRUE, NoErr,
                                     SubSeq(stream, Len(Bulk(payload)) + 1, Len(stream)))

\* Get has decoded a bulk string whose payload is CRLF itself.
C11_Witness ==
    /\ decoded.fn = "Get"
    /\ stream = Bulk(crlf)
    /\ decoded.ret.value = crlf
    /\ decoded.ret.exists

\* The reader holds a well-formed line of type t: t, a text without CR or
\* LF, CRLF.
IsLine(s, t) ==
    /\ Len(s) >= 3
    /\ s[1] = t
    /\ \E i \in 3..Len(s) :
          /\ s[i] = LF
          /\ s[i - 1] = CR
          /\ \A j \in 2..(i - 2) : s[j] \notin {CR, LF}

\* The text of the line the reader holds.
LineText(s) == SubSeq(s, 2, IndexLF(s) - 2)

OkLine == <<"+", "O", "K", CR, LF>>

\* C12: Set reply classification.  Set returns nil for the simple string
\* OK and for every well-formed bulk string (null and empty included); the
\* expected-OK error of the text for a simple string with another text; the
\* server's error for an error line; the unexpected-type error for the
\* other types.
C12_SetClassification ==
    decoded.fn = "Set" =>
        /\ StartsWith(stream, OkLine) => decoded.ret.err = NoErr
        /\ \A payload \in Payloads \cup {<<>>} :
               StartsWith(stream, Bulk(payload)) => decoded.ret.err = NoErr
        /\ StartsWith(stream, NullBulk) => decoded.ret.err = NoErr
        /\ (IsLine(stream, "+") /\ LineText(stream) # <<"O", "K">>)
               => decoded.ret.err = Err("expectedOK", LineText(stream))
        /\ IsLine(stream, "-") => decoded.ret.err = Err("msg", LineText(stream))
        /\ (stream # <<>> /\ Head(stream) \in {":", "*"})
               => decoded.ret.err = Err("unexpected", <<Head(stream)>>)

\* Set has refused a simple string that is not OK.
C12_Witness ==
    /\ decoded.fn = "Set"
    /\ stream = <<"+", "a", CR, LF>>
    /\ decoded.ret.err = Err("expectedOK", <<"a">>)

\* The tokens of the command of a call: the name, the key, and for Set the
\* value.
Tokens(a) ==
    IF a.fn = "Get" THEN << <<"G", "E", "T">>, a.key >>
    ELSE << <<"S", "E", "T">>, a.key, a.value >>

\* A token as a bulk string: "$", its length, CRLF, its bytes, CRLF.
TokenFrame(t) == <<"$">> \o Itoa(Len(t)) \o crlf \o t \o crlf

RECURSIVE TokenFrames(_)
TokenFrames(ts) ==
    IF ts = <<>> THEN <<>> ELSE TokenFrame(Head(ts)) \o TokenFrames(Tail(ts))

\* C13: binary-safe command encoding.  The frame written for a Get or a Set
\* is "*", the number of tokens (2 or 3), CRLF, and each token as a bulk
\* string with its bytes verbatim, for every key and value.
C13_BinarySafeEncoding ==
    stream # <<>> =>
        stream = <<"*">> \o Itoa(Len(Tokens(args))) \o crlf \o TokenFrames(Tokens(args))

\* C14: server errors are distinguishable by kind.  The error a call
\* returns for the server's error reply has a Go type that no error of
\* another origin (I/O, timeout, context, dial, malformed frame, unexpected
\* reply) can have.
C14_ServerErrorKind ==
    \A p \in Callers :
        (pc[p] = "return" /\ result[p].err.kind = "msg")
            => \A k \in DecodeKinds :
                   GoTypes(result[p].err) \cap GoTypes(Err(k, <<>>)) = {}

\* C15: round-trip framing.  Reading back as an array the frame encoded for
\* a call gives, without error, as many strings as the command has tokens,
\* equal to the tokens in order, for every key and value.
C15_RoundTrip ==
    decoded.fn = "getArray" =>
        /\ decoded.ret.err = NoErr
        /\ decoded.ret.arr =
               [i \in 1..Len(Tokens(args)) |-> StringItem(Tokens(args)[i])]

\* C16: the deadline is applied to the connection in use.  While a call is
\* about to write its command or to read its reply, the deadline of the
\* connection it holds is the deadline of its context, and none when its
\* context has none, whether the connection came from the idle store or was
\* dialed for the call.
C16_DeadlineApplied ==
    \A p \in Callers :
        pc[p] \in {"acquired", "written"}
            => conn[hold[p]].deadline = IF HasDeadline(ctx[p]) THEN p ELSE 0

\* C17: request/reply alignment.  Every connection in the idle store whose
\* peer is still there is at a frame boundary: no command written on it is still to be answered, and
\* no byte of a reply is still to be read from it, so the next call that
\* takes it reads the reply to its own command.
C17_ReplyAlignment ==
    \A c \in Conns :
        (InPool(c) /\ ~conn[c].closed /\ ~conn[c].broken)
            => (conn[c].pending = 0 /\ conn[c].inbuf = <<>>)

\* C18: malformed framing yields a decode error, not a crash.  Whatever
\* bytes the reply is made of, Get and Set return to their caller: the
\* decoding does not panic.
C18_MalformedNoCrash ==
    decoded.fn \in {"Get", "Set"} => decoded.ret.err.kind # "panic"

\* C19: transport errors are not masked in Set.  When the stream ends after
\* a '+' type byte before the end of the line, Set returns the error of the
\* failed read.
C19_TransportNotMasked ==
    (/\ decoded.fn = "Set"
     /\ stream # <<>>
     /\ Head(stream) = "+"
     /\ IndexLF(stream) = 0)
        => decoded.ret.err.kind = "io"

\* C20: an idle connection is preferred.  A call issued with a live context
\* while the idle store holds a connection takes the oldest idle connection
\* and dials nothing, unless that connection could not have its deadline
\* set: then it has been closed and taken out of the idle store.
C20_IdlePreferred ==
    [][\A p \in Callers :
         (/\ pc[p] = "idle"
          /\ pc'[p] # "idle"
          /\ ~CtxDone(ctx'[p])
          /\ pool # <<>>)
             => /\ pool' = Tail(pool)
                /\ \/ /\ hold'[p] = Head(pool)
                      /\ Len(conn') = Len(conn)
                      /\ ~conn'[Head(pool)].closed
                   \/ /\ hold'[p] # Head(pool)
                      /\ conn'[Head(pool)].closed]_vars

\* A call with a deadline has taken the older of two idle connections (its
\* deadline is set on it, which only the receive from the pool does) and
\* nothing was dialed.
C20_Witness ==
    \E p \in Callers :
        /\ pc[p] = "acquired"
        /\ ctx[p].kind = "deadline"
        /\ hold[p] = 1
        /\ conn[1].deadline = p
        /\ pool = <<2>>
        /\ Len(conn) = 2

\* How many times connection c is in the idle store, and how many calls in
\* flight own it.
PoolCount(c) == Cardinality({i \in 1..Len(pool) : pool[i] = c})
HolderCount(c) == Cardinality({p \in Callers : Holds(p, c)})

\* C21: no lost connections.  Every connection seeded or dialed that the
\* client has not closed is in the idle store exactly once or owned by
\* exactly one call in flight, never both; with no call in flight every
\* such connection is in the idle store.
C21_NoLostConnections ==
    /\ \A c \in Conns :
           ~conn[c].closed => PoolCount(c) + HolderCount(c) = 1
    /\ (\A p \in Callers : pc[p] \notin InFlight)
           => \A c \in Conns : ~conn[c].closed => PoolCount(c) = 1

\* Both calls have returned, each after writing on a connection of its own
\* (one of them dialed), and both connections are idle.
C21_Witness ==
    /\ \A p \in Callers : pc[p] = "done"
    /\ Len(conn) = 2
    /\ Len(pool) = 2
    /\ \A c \in Conns : ~conn[c].closed /\ conn[c].writes > 0

\* C22: bounded idle store.  The idle store never holds more connections
\* than the capacity New gives the channel, DefaultPoolSize = 10.
C22_BoundedIdleStore ==
    Len(pool) \in 0..DefaultPoolSize

\* The idle store is full, and one more call has reached its release with
\* a connection of its own.
C22_Witness ==
    /\ Len(pool) = DefaultPoolSize
    /\ \E p \in Callers : pc[p] = "release" /\ ~InPool(hold[p])

\* A call has failed in getConn: it returns with no connection.
FailedAcquire(p) == pc[p] = "return" /\ hold[p] = 0

\* C23: a failed Acquire changes nothing.  A call issued while the idle
\* store is empty that fails in getConn returns the error of the dial or of
\* the context, owns no connection, and leaves the idle store and every
\* connection as they were (nothing written, nothing released); from there
\* it only returns; and the next call can still dial and get a connection.
C23_FailedAcquire ==
    /\ [][\A p \in Callers :
            /\ (pc[p] = "idle" /\ pc'[p] = "return" /\ pool = <<>>)
                   => /\ result'[p].err.kind \in {"dial", "ctx"}
                      /\ hold'[p] = 0
                      /\ pool' = pool
                      /\ conn' = conn
            /\ (FailedAcquire(p) /\ pc'[p] # pc[p])
                   => (pc'[p] = "done" /\ pool' = pool /\ conn' = conn)]_vars
    /\ [](\A p, q \in Callers :
            (FailedAcquire(p) /\ q = p + 1 /\ pc[q] = "idle")
                => ENABLED (Acquire(q, "Get", "background") /\ pc'[q] = "acquired"))

\* The first call failed in the dial with the idle store empty, and the
\* second call has dialed the client's only connection and written on it.
C23_Witness ==
    \E p, q \in Callers :
        /\ q = p + 1
        /\ FailedAcquire(p)
        /\ result[p].err.kind = "dial"
        /\ pc[q] = "written"
        /\ Len(conn) = 1
        /\ hold[q] = 1
        /\ conn[1].writes = 1
        /\ pool = <<>>

=============================================================================
